---- MODULE Spec2Model ----
(***************************************************************************)
(* Model of tacky-borders-logger (src/src/lib.rs): the function_name!      *)
(* resolver and the five severity macros debug!, info!, error!, warn! and  *)
(* trace! that wrap the `log` crate.                                       *)
(*                                                                         *)
(* Text is a sequence of bytes, each byte written as a string: an ASCII    *)
(* byte is its character ("a", ":", "{"), and the two bytes of the UTF-8   *)
(* encoding of a two-byte character are "C3" (lead) and "A9"               *)
(* (continuation).  A Rust `String`/`&str` is always valid UTF-8.          *)
(***************************************************************************)
EXTENDS Integers, Sequences, FiniteSets, TLC

\* ------------------------------------------------------------------ bounds

\* Invocations of a severity macro begun in one run, over all threads.
MaxCalls == 2
\* Closures nested around a call site inside its named function.
MaxClosureDepth == 1
\* Path segments before the helper segment in an enumerated reported path.
MaxSegs == 3
\* Bytes of an arbitrary (unstructured) reported path.
MaxPathLen == 4
\* Bytes of an enumerated format template.
MaxTemplateLen == 2

\* ------------------------------------------------------------------- text

Last(s) == s[Len(s)]

\* The continuation byte of the two-byte character.
IsContinuation(b) == b = "A9"

\* str::is_char_boundary: 0 and len are boundaries, and so is every index whose
\* byte does not continue a character (index i is 0-based: the byte s[i + 1]).
IsCharBoundary(s, i) ==
    \/ i = 0
    \/ i = Len(s)
    \/ /\ 0 < i
       /\ i < Len(s)
       /\ ~IsContinuation(s[i + 1])

\* Valid UTF-8 over the model's bytes: a lead byte is followed by one
\* continuation byte, and a continuation byte follows a lead byte.
IsUtf8(s) ==
    \A i \in 1..Len(s) :
        /\ s[i] = "C3" => (i < Len(s) /\ s[i + 1] = "A9")
        /\ s[i] = "A9" => (i > 1 /\ s[i - 1] = "C3")

\* pat occurs in s at (1-based) position i.
MatchAt(s, i, pat) ==
    /\ i + Len(pat) - 1 <= Len(s)
    /\ SubSeq(s, i, i + Len(pat) - 1) = pat

\* str::split(pat) for a non-empty pat: the pieces between the leftmost
\* non-overlapping occurrences of pat; always at least one piece.
RECURSIVE SplitFrom(_, _, _, _)
SplitFrom(s, pat, i, start) ==
    IF i > Len(s)
    THEN << SubSeq(s, start, Len(s)) >>
    ELSE IF MatchAt(s, i, pat)
         THEN << SubSeq(s, start, i - 1) >>
              \o SplitFrom(s, pat, i + Len(pat), i + Len(pat))
         ELSE SplitFrom(s, pat, i + 1, start)

Split(s, pat) == SplitFrom(s, pat, 1, 1)

\* The pieces joined by sep.
RECURSIVE Join(_, _)
Join(pieces, sep) ==
    IF Len(pieces) = 0 THEN << >>
    ELSE IF Len(pieces) = 1 THEN pieces[1]
    ELSE pieces[1] \o sep \o Join(Tail(pieces), sep)

\* ------------------------------------------------------------- std::fmt

DigitChars == << "0", "1", "2", "3", "4", "5", "6", "7", "8", "9" >>

\* Display of an unsigned integer: its decimal digits, no padding.
RECURSIVE DisplayInt(_)
DisplayInt(n) ==
    IF n < 10 THEN << DigitChars[n + 1] >>
    ELSE DisplayInt(n \div 10) \o << DigitChars[(n % 10) + 1] >>

\* A format argument is an integer or a string.
IntArg(n) == [kind |-> "int", int |-> n, str |-> << >>]
StrArg(s) == [kind |-> "str", int |-> 0, str |-> s]

\* Display of an argument; a string is written verbatim, never scanned.
Display(a) == IF a.kind = "int" THEN DisplayInt(a.int) ELSE a.str

\* The number of `{}` placeholders of a template, or -1 when it is not a
\* format string the compiler accepts (a lone brace).
RECURSIVE Placeholders(_, _)
Placeholders(tmpl, i) ==
    IF i > Len(tmpl) THEN 0
    ELSE IF tmpl[i] \in {"{", "}"}
         THEN IF i = Len(tmpl) THEN -1
              ELSE IF tmpl[i + 1] = tmpl[i] \/ (tmpl[i] = "{" /\ tmpl[i + 1] = "}")
                   THEN LET rest == Placeholders(tmpl, i + 2)
                        IN  IF rest < 0 THEN -1
                            ELSE IF tmpl[i + 1] = tmpl[i] THEN rest ELSE rest + 1
                   ELSE -1
         ELSE Placeholders(tmpl, i + 1)

\* format!(tmpl, args...): one pass over the template; `{{` and `}}` are the
\* escaped braces, `{}` is replaced by the Display of the next argument.  The
\* compiler rejects any other use of a brace and a wrong number of arguments;
\* for such a template a lone brace is copied and a missing argument is empty.
RECURSIVE Render(_, _, _, _)
Render(tmpl, i, args, k) ==
    IF i > Len(tmpl) THEN << >>
    ELSE IF i < Len(tmpl) /\ tmpl[i] = "{" /\ tmpl[i + 1] = "}"
         THEN (IF k <= Len(args) THEN Display(args[k]) ELSE << >>)
              \o Render(tmpl, i + 2, args, k + 1)
         ELSE IF i < Len(tmpl) /\ tmpl[i] \in {"{", "}"} /\ tmpl[i + 1] = tmpl[i]
              THEN << tmpl[i] >> \o Render(tmpl, i + 2, args, k)
              ELSE << tmpl[i] >> \o Render(tmpl, i + 1, args, k)

Format(tmpl, args) == Render(tmpl, 1, args, 1)

\* ------------------------------------------------------------ call sites

\* The module separator of a path, and the helper `fn f() {}` that the
\* resolver declares at the call site.
PathSep == << ":", ":" >>
HelperName == << "f" >>
\* The segment the compiler reports for a closure body.
ClosureSegment == << "{", "{", "c", "l", "o", "s", "u", "r", "e", "}", "}" >>

compute == << "c", "o", "m", "p", "u", "t", "e" >>
run == << "r", "u", "n" >>
CrateName == << "a", "p", "p" >>

\* n copies of the closure segment.
RECURSIVE ClosureSegments(_)
ClosureSegments(n) ==
    IF n = 0 THEN << >> ELSE << ClosureSegment >> \o ClosureSegments(n - 1)

\* A lexical call site: the modules around the named function func, func, and
\* how many closures and plain nested blocks lie between func's body and the
\* macro invocation.
Site(mods, func, closures, blocks) ==
    [kind |-> "item", mods |-> mods, func |-> func,
     closures |-> closures, blocks |-> blocks]

\* The segments of the path of the scope that holds the call site: every
\* enclosing module, the function, and one segment per enclosing closure.  A
\* nested block adds no segment.
ScopeSegments(site) ==
    site.mods \o << site.func >> \o ClosureSegments(site.closures)

\* A call site of which only the reported path of its helper is given.  The
\* text std::any::type_name returns is documented as unspecified, so any valid
\* string may be a reported path.
Reported(path) ==
    [kind |-> "raw", mods |-> << >>, func |-> path, closures |-> 0, blocks |-> 0]

\* std::any::type_name of the helper declared at the site: the path of the
\* scope, then the helper's own name.
type_name_of(site) ==
    IF site.kind = "raw" THEN site.func
    ELSE Join(ScopeSegments(site) \o << HelperName >>, PathSep)

\* --------------------------------------------------------------- resolver

Panicked == [panicked |-> TRUE, value |-> << >>]
Returned(v) == [panicked |-> FALSE, value |-> v]

\* function_name!() taking the first piece of the split path, not the last.
function_name_first_part(name) ==
    IF Len(name) < 3 THEN Panicked
    ELSE IF ~IsCharBoundary(name, Len(name) - 3) THEN Panicked
    ELSE Returned(Split(SubSeq(name, 1, Len(name) - 3), PathSep)[1])

\* function_name!() passing over closure segments to the last named item.
function_name_named_item(name) ==
    IF Len(name) < 3 THEN Panicked
    ELSE IF ~IsCharBoundary(name, Len(name) - 3) THEN Panicked
    ELSE LET parts == SelectSeq(Split(SubSeq(name, 1, Len(name) - 3), PathSep),
                                LAMBDA part : part # ClosureSegment)
         IN  Returned(IF Len(parts) = 0 THEN << >> ELSE Last(parts))

\* function_name!() where the helper's reported path is `name`.
\* `name.len() - 3`
\* is a usize subtraction: for len < 3 it panics on overflow where overflow
\* checks are on, and where they are off wraps to 2^64 + len - 3, which is
\* past the end, so the slice panics.  The slice also panics when its end is
\* not a character boundary.  split() yields at least one piece, so
\* last().unwrap() never panics.
function_name(name) ==
    IF Len(name) < 3 THEN Panicked
    ELSE IF ~IsCharBoundary(name, Len(name) - 3) THEN Panicked
    ELSE LET func_name == SubSeq(name, 1, Len(name) - 3)
             func_name_split == Split(func_name, PathSep)
             last_part == Last(func_name_split)
         IN  Returned(last_part)

\* ----------------------------------------------------------------- facade

\* Each severity macro: the template of its format! call and the `log` macro
\* it ends with.
debug ==
    [pattern |-> << "{", "}", " ", "[", "f", "n", " ", "{", "}", "]" >>,
     sink |-> "debug"]
\* info! with the template of trace!.
info_with_at ==
    [pattern |->
        << "{", "}", " ", "a", "t", " ", "[", "f", "n", " ", "{", "}", "]" >>,
     sink |-> "info"]

info ==
    [pattern |-> << "{", "}", " ", "[", "f", "n", " ", "{", "}", "]" >>,
     sink |-> "info"]
error ==
    [pattern |-> << "{", "}", " ", "[", "f", "n", " ", "{", "}", "]" >>,
     sink |-> "error"]
warn ==
    [pattern |-> << "{", "}", " ", "[", "f", "n", " ", "{", "}", "]" >>,
     sink |-> "warn"]
\* trace! with the template of the other four macros.
trace_without_at ==
    [pattern |-> << "{", "}", " ", "[", "f", "n", " ", "{", "}", "]" >>,
     sink |-> "trace"]

trace ==
    [pattern |->
        << "{", "}", " ", "a", "t", " ", "[", "f", "n", " ", "{", "}", "]" >>,
     sink |-> "trace"]

Macros == {"trace", "debug", "info", "warn", "error"}

MacroDef(m) ==
    CASE m = "debug" -> debug
      [] m = "info" -> info
      [] m = "error" -> error
      [] m = "warn" -> warn
      [] m = "trace" -> trace

\* ------------------------------------------------------------------ state

Threads == {"t1", "t2"}

VARIABLES
    pc,                 \* per thread: where it is in the macro's expansion
    call,               \* per thread: the invocation in progress
    fn_name,            \* per thread: the macro's local `fn_name`
    formatted_message,  \* per thread: the macro's local `formatted_message`
    backend,            \* the calls the `log` macros have received, in order
    started             \* invocations begun so far

vars == << pc, call, fn_name, formatted_message, backend, started >>

\* One invocation: the lexical call site, the macro invoked, and the template
\* and arguments given to it.
Call(site, macro, template, args) ==
    [site |-> site, macro |-> macro, template |-> template, args |-> args]

NoCall == Call(Reported(<< >>), "debug", << >>, << >>)

\* ----------------------------------------------------------------- inputs

SeqsUpTo(S, n) == UNION {[1..k -> S] : k \in 0..n}

\* A message: a template the compiler accepts with one argument per
\* placeholder.
Message(template, args) == [template |-> template, args |-> args]

Value42 == IntArg(42)
Braces == StrArg(<< "{", "}" >>)
ArgValues == {Value42, IntArg(7), Braces, StrArg(<< >>)}

ValueTemplate == << "v", "a", "l", "u", "e", "=", "{", "}" >>
StartTemplate == << "s", "t", "a", "r", "t" >>

\* The call sites (two branches of one function) and the messages of the
\* threaded runs.
ProgramSites ==
    {Site(<< CrateName >>, compute, 0, 0),
     Site(<< CrateName >>, compute, 0, 1)}
ProgramMessages ==
    {Message(ValueTemplate, << Value42 >>), Message(StartTemplate, << >>)}

\* The chain of callers on each thread's stack when it reaches a call site: the
\* macros never look at it.
main == << "m", "a", "i", "n" >>
worker == << "w", "o", "r", "k", "e", "r" >>
CallerChain(t) == IF t = "t1" THEN << main >> ELSE << main, worker >>

\* ---------------------------------------------------------------- actions

\* A thread reaches a severity macro: the invocation's inputs are fixed.
Invoke(t) ==
    /\ pc[t] = "idle"
    /\ started < MaxCalls
    /\ \E site \in ProgramSites, m \in Macros, msg \in ProgramMessages :
          call' = [call EXCEPT ![t] =
              Call(site, m, msg.template, msg.args)]
    /\ started' = started + 1
    /\ pc' = [pc EXCEPT ![t] = "resolve"]
    /\ UNCHANGED << fn_name, formatted_message, backend >>

\* The name taken from the innermost frame of the caller chain instead of the
\* call site.
ResolveName_from_stack(t) ==
    /\ pc[t] = "resolve"
    /\ pc' = [pc EXCEPT ![t] = "format"]
    /\ fn_name' = [fn_name EXCEPT ![t] = Last(CallerChain(t))]
    /\ UNCHANGED << call, formatted_message, backend, started >>

\* let fn_name = function_name!();  The helper's path is reported, then
\* processed.  A panic unwinds the thread out of the macro: nothing is sent to
\* the backend.
ResolveName(t) ==
    /\ pc[t] = "resolve"
    /\ \E name \in {type_name_of(call[t].site)} :
       \E r \in {function_name(name)} :
          IF r.panicked
          THEN /\ pc' = [pc EXCEPT ![t] = "panicked"]
               /\ UNCHANGED fn_name
          ELSE /\ pc' = [pc EXCEPT ![t] = "format"]
               /\ fn_name' = [fn_name EXCEPT ![t] = r.value]
    /\ UNCHANGED << call, formatted_message, backend, started >>

\* The composed text kept in one buffer that all threads share.
FormatMessage_shared(t) ==
    /\ pc[t] = "format"
    /\ \E rendered \in {Format(call[t].template, call[t].args)} :
          formatted_message' =
              [u \in Threads |->
                  Format(MacroDef(call[t].macro).pattern,
                         << StrArg(rendered), StrArg(fn_name[t]) >>)]
    /\ pc' = [pc EXCEPT ![t] = "forward"]
    /\ UNCHANGED << call, fn_name, backend, started >>

\* let formatted_message = format!(<pattern>, format_args!(...), fn_name);
FormatMessage(t) ==
    /\ pc[t] = "format"
    /\ \E rendered \in {Format(call[t].template, call[t].args)} :
          formatted_message' =
              [formatted_message EXCEPT ![t] =
                  Format(MacroDef(call[t].macro).pattern,
                         << StrArg(rendered), StrArg(fn_name[t]) >>)]
    /\ pc' = [pc EXCEPT ![t] = "forward"]
    /\ UNCHANGED << call, fn_name, backend, started >>

\* The backend call made twice.
Forward_retried(t) ==
    /\ pc[t] = "forward"
    /\ LET r == [sink |-> MacroDef(call[t].macro).sink,
                 fmt |-> << "{", "}" >>,
                 args |-> << StrArg(formatted_message[t]) >>,
                 call |-> call[t]]
       IN  backend' = backend \o << r, r >>
    /\ pc' = [pc EXCEPT ![t] = "idle"]
    /\ call' = [call EXCEPT ![t] = NoCall]
    /\ fn_name' = [fn_name EXCEPT ![t] = << >>]
    /\ formatted_message' = [formatted_message EXCEPT ![t] = << >>]
    /\ UNCHANGED started

\* The backend call made as soon as the name is resolved.
Forward_early(t) ==
    /\ pc[t] \in {"format", "forward"}
    /\ backend' = Append(backend,
          [sink |-> MacroDef(call[t].macro).sink,
           fmt |-> << "{", "}" >>,
           args |-> << StrArg(formatted_message[t]) >>,
           call |-> call[t]])
    /\ pc' = [pc EXCEPT ![t] = "idle"]
    /\ call' = [call EXCEPT ![t] = NoCall]
    /\ fn_name' = [fn_name EXCEPT ![t] = << >>]
    /\ formatted_message' = [formatted_message EXCEPT ![t] = << >>]
    /\ UNCHANGED started

\* The composed string given to the backend as its template as well as its
\* argument.
Forward_as_template(t) ==
    /\ pc[t] = "forward"
    /\ backend' = Append(backend,
          [sink |-> MacroDef(call[t].macro).sink,
           fmt |-> formatted_message[t],
           args |-> << StrArg(formatted_message[t]) >>,
           call |-> call[t]])
    /\ pc' = [pc EXCEPT ![t] = "idle"]
    /\ call' = [call EXCEPT ![t] = NoCall]
    /\ fn_name' = [fn_name EXCEPT ![t] = << >>]
    /\ formatted_message' = [formatted_message EXCEPT ![t] = << >>]
    /\ UNCHANGED started

\* log::<severity>!("{}", formatted_message);  then the macro's block ends and
\* its locals are dropped.  The entry's `call` is the invocation that made the
\* call; the backend is not given it.
Forward(t) ==
    /\ pc[t] = "forward"
    /\ backend' = Append(backend,
          [sink |-> MacroDef(call[t].macro).sink,
           fmt |-> << "{", "}" >>,
           args |-> << StrArg(formatted_message[t]) >>,
           call |-> call[t]])
    /\ pc' = [pc EXCEPT ![t] = "idle"]
    /\ call' = [call EXCEPT ![t] = NoCall]
    /\ fn_name' = [fn_name EXCEPT ![t] = << >>]
    /\ formatted_message' = [formatted_message EXCEPT ![t] = << >>]
    /\ UNCHANGED started

\* --------------------------------------------------------- specifications

Init ==
    /\ pc = [t \in Threads |-> "idle"]
    /\ call = [t \in Threads |-> NoCall]
    /\ fn_name = [t \in Threads |-> << >>]
    /\ formatted_message = [t \in Threads |-> << >>]
    /\ backend = << >>
    /\ started = 0

Next ==
    \E t \in Threads :
        \/ Invoke(t)
        \/ ResolveName(t)
        \/ FormatMessage(t)
        \/ Forward(t)

\* Threads invoking the macros of a program concurrently.
Spec == Init /\ [][Next]_vars

\* The inputs of the single-invocation runs.

\* Shapes of a path segment: identifiers, a non-ASCII identifier, and
\* segments with a single colon at either end.
Segments ==
    {compute, run, << "g" >>, << "C3", "A9" >>, << "g", ":" >>, << ":", "g" >>}

\* Sites whose scope path is any sequence of 1..MaxSegs segments, under up to
\* MaxClosureDepth closures, directly in the body or in a nested block.
UnitSites ==
    {Site(SubSeq(segs, 1, Len(segs) - 1), Last(segs), c, b) :
        segs \in (SeqsUpTo(Segments, MaxSegs) \ {<< >>}),
        c \in 0..MaxClosureDepth, b \in {0, 1}}

\* Arbitrary reported paths: every valid string of up to MaxPathLen bytes.
PathBytes == {":", "f", "g", "C3", "A9"}
RawSites == {Reported(p) : p \in {q \in SeqsUpTo(PathBytes, MaxPathLen) : IsUtf8(q)}}

\* Every accepted template of up to MaxTemplateLen bytes, and the two longer
\* ones, with every choice of arguments.
TemplateBytes == {"v", "{", "}"}
UnitTemplates ==
    {tm \in SeqsUpTo(TemplateBytes, MaxTemplateLen) : Placeholders(tm, 1) >= 0}
        \cup {ValueTemplate, StartTemplate}
UnitMessages ==
    UNION {{Message(tm, args) : args \in [1..Placeholders(tm, 1) -> ArgValues]} :
              tm \in UnitTemplates}

UnitCalls ==
    {Call(site, m, StartTemplate, << >>) :
        site \in UnitSites \cup RawSites, m \in Macros}
    \cup
    {Call(site, m, msg.template, msg.args) :
        site \in {Site(<< CrateName >>, compute, 0, 0), Site(<< >>, run, 0, 0)},
        m \in Macros, msg \in UnitMessages}

InitUnit ==
    /\ pc = [t \in Threads |-> IF t = "t1" THEN "resolve" ELSE "idle"]
    /\ \E c \in UnitCalls : call = [t \in Threads |-> IF t = "t1" THEN c ELSE NoCall]
    /\ fn_name = [t \in Threads |-> << >>]
    /\ formatted_message = [t \in Threads |-> << >>]
    /\ backend = << >>
    /\ started = 1

NextUnit ==
    \E t \in Threads :
        \/ ResolveName(t)
        \/ FormatMessage(t)
        \/ Forward(t)

\* One invocation, on one thread, for every input of the bounded input sets.
SpecUnit == InitUnit /\ [][NextUnit]_vars

\* ------------------------------------------------------------- properties

\* A segment as the compiler writes one for a named item or a closure:
\* non-empty, without a colon.
IsItemSegment(seg) == Len(seg) > 0 /\ \A i \in 1..Len(seg) : seg[i] # ":"

\* A site of a Rust program: every segment of its scope path is such a segment.
IsProgramSite(site) ==
    /\ site.kind = "item"
    /\ \A i \in 1..Len(ScopeSegments(site)) : IsItemSegment(ScopeSegments(site)[i])

\* The call site lies in the body of the named function itself (possibly in a
\* nested block), not in a closure.
DirectlyIn(site) == IsProgramSite(site) /\ site.closures = 0

\* The text R the invocation's template and arguments render to.
Rendered(c) == Format(c.template, c.args)

\* The string a call to the backend carries.
Forwarded(r) == r.args[1].str

\* The text the backend writes for a call it received: it interpolates the
\* call's arguments into the call's template.
Emitted(r) == Format(r.fmt, r.args)

BracketFn == << " ", "[", "f", "n", " " >>
AtBracketFn == << " ", "a", "t", " ", "[", "f", "n", " " >>

InBackend == {backend[i] : i \in DOMAIN backend}

\* C1: debug!, info!, warn! and error! invoked directly in the body of a
\* function named f forward the rendered text R followed by " [fn f]".
C1_PlainSuffix ==
    \A r \in InBackend :
        (r.call.macro \in {"debug", "info", "warn", "error"} /\ DirectlyIn(r.call.site))
            => Forwarded(r) = Rendered(r.call) \o BracketFn \o r.call.site.func \o << "]" >>

\* debug!("value={}", 42) in `compute` has forwarded "value=42 [fn compute]".
C1_Witness ==
    \E r \in InBackend :
        /\ r.call.macro = "debug"
        /\ r.call.template = ValueTemplate
        /\ r.call.args = << Value42 >>
        /\ r.call.site.func = compute
        /\ Forwarded(r) =
              << "v", "a", "l", "u", "e", "=", "4", "2", " ", "[", "f", "n", " ",
                 "c", "o", "m", "p", "u", "t", "e", "]" >>

C10_PreRendered ==
    \A r \in InBackend :
        /\ Len(r.args) = 1
        /\ Emitted(r) = Forwarded(r)
        /\ LET R == Rendered(r.call)
           IN  /\ Len(Emitted(r)) >= Len(R)
               /\ SubSeq(Emitted(r), 1, Len(R)) = R

\* info!("{}", "{}") in `compute`: the backend has written "{} [fn compute]".
C10_Witness ==
    \E r \in InBackend :
        /\ r.call.template = << "{", "}" >>
        /\ r.call.args = << Braces >>
        /\ r.call.macro = "info"
        /\ Emitted(r) =
              << "{", "}", " ", "[", "f", "n", " ",
                 "c", "o", "m", "p", "u", "t", "e", "]" >>

\* The threads between the first and the last statement of a macro.
InFlight == {t \in Threads : pc[t] \in {"resolve", "format", "forward"}}

\* The threads whose local `fn_name` is in scope.
Resolved == {t \in Threads : pc[t] \in {"format", "forward"}}

\* C3: every invocation makes exactly one call into the backend, to the sink of
\* its own severity: the backend has received one call per completed
\* invocation, none for one still in flight, and each to the matching sink.
C3_OneCallPerInvocation ==
    /\ Len(backend) + Cardinality(InFlight) = started
    /\ \A r \in InBackend : r.sink = r.call.macro

\* Two invocations of different severities have completed.
C3_Witness ==
    /\ Len(backend) = 2
    /\ InFlight = {}
    /\ backend[1].sink = "warn"
    /\ backend[2].sink = "error"

\* C4: the resolver never panics, whatever the shape of the reported path.
C4_NeverPanics == \A t \in Threads : pc[t] # "panicked"

\* seg is free of the module separator.
FreeOfSep(seg) == \A i \in 1..Len(seg) : ~MatchAt(seg, i, PathSep)

\* The reported path is <m1>::...::<mk>::<fname>::f with every segment
\* non-empty and free of `::`.
IsSegmentedPath(site) ==
    /\ site.kind = "item"
    /\ site.closures = 0
    /\ \A i \in 1..Len(ScopeSegments(site)) :
          Len(ScopeSegments(site)[i]) > 0 /\ FreeOfSep(ScopeSegments(site)[i])

NoModuleEndsInColon(site) ==
    \A i \in 1..Len(site.mods) : Last(site.mods[i]) # ":"

AttachedName(text) ==
    LET tail == Last(Split(text, << "[", "f", "n", " " >>))
    IN  SubSeq(tail, 1, Len(tail) - 1)

\* Two call sites in the same function: the same scope path (they may lie in
\* different branches).
SameFunction(s1, s2) == ScopeSegments(s1) = ScopeSegments(s2)

\* Every invocation that has its name: the site and the name.
Named ==
    {[site |-> call[t].site, name |-> fn_name[t]] : t \in Resolved}
    \cup {[site |-> r.call.site, name |-> AttachedName(Forwarded(r))] : r \in InBackend}

AloneText(c) ==
    Rendered(c)
        \o (IF c.macro = "trace" THEN AtBracketFn ELSE BracketFn)
        \o Last(ScopeSegments(c.site)) \o << "]" >>

\* C7: under any interleaving each invocation's locals and the string it hands
\* to the backend are the ones it produces alone.
C7_RecordsIntact ==
    /\ \A t \in Resolved : fn_name[t] = Last(ScopeSegments(call[t].site))
    /\ \A t \in Threads : pc[t] = "forward" => formatted_message[t] = AloneText(call[t])
    /\ \A r \in InBackend : Forwarded(r) = AloneText(r.call)

\* One invocation was forwarded while another, different one, had its text
\* ready.
C7_Witness ==
    /\ Len(backend) = 1
    /\ pc["t2"] = "forward"
    /\ formatted_message["t2"] # Forwarded(backend[1])
    /\ call["t2"].macro # backend[1].call.macro

\* C8 as stated: in a closure within a named function the reported name is
\* the name of an enclosing named item, not the closure's segment.
C8_Original ==
    \A t \in Resolved :
        (IsProgramSite(call[t].site) /\ call[t].site.closures > 0) =>
            fn_name[t] \in {call[t].site.func}
                              \cup {call[t].site.mods[i] : i \in DOMAIN call[t].site.mods}

\* C8, amended: in a closure the reported name is the closure's own segment
\* `{{closure}}`; in a nested block that is not a closure it is the name of the
\* enclosing function.
C8_ClosureSegment ==
    \A t \in Resolved :
        IsProgramSite(call[t].site) =>
            /\ call[t].site.closures > 0 => fn_name[t] = ClosureSegment
            /\ (call[t].site.closures = 0 /\ call[t].site.blocks > 0)
                  => fn_name[t] = call[t].site.func

\* A call in a closure of `run` has been resolved.
C8_Witness ==
    \E t \in Resolved :
        /\ IsProgramSite(call[t].site)
        /\ call[t].site.closures > 0
        /\ call[t].site.func = run
        /\ fn_name[t] = ClosureSegment

Stages ==
    {<< "idle", "resolve" >>, << "resolve", "format" >>,
     << "format", "forward" >>, << "forward", "idle" >>}

\* The steps of every invocation come in the order resolve, format, forward, and
\* the backend is called only with the complete text.
C9_InOrder ==
    [][ /\ \A t \in Threads : pc'[t] # pc[t] => << pc[t], pc'[t] >> \in Stages
        /\ backend' # backend =>
              \E t \in Threads :
                  /\ pc[t] = "forward"
                  /\ pc'[t] = "idle"
                  /\ formatted_message[t] = AloneText(call[t])
                  /\ Len(backend') = Len(backend) + 1
                  /\ Forwarded(Last(backend')) = formatted_message[t] ]_vars

\* The next statement of a macro a thread is inside of can always be taken:
\* nothing suspends or blocks the thread.
NeverSuspended ==
    \A t \in InFlight : ENABLED (ResolveName(t) \/ FormatMessage(t) \/ Forward(t))

\* C9: the steps of an invocation come in the order resolve, format, forward,
\* the backend is never called before the full text exists, and an invocation
\* that has begun can always take its next step, so it runs to completion.
C9_RunsToCompletion == C9_InOrder /\ []NeverSuspended

\* An invocation has completed while the other thread is inside a macro.
C9_Witness ==
    /\ Len(backend) = 1
    /\ pc["t1"] = "idle"
    /\ pc["t2"] = "format"

====
